---- MODULE Spec2Model ----
(***************************************************************************)
(* Data Sweeper Pro (src/app.py): a Streamlit script that is re-run from   *)
(* top to bottom on every user interaction.  The model keeps the uploaded  *)
(* files, st.session_state, the local variables of main() and the position *)
(* of the run inside the per-file loop.                                    *)
(*                                                                         *)
(* Strings that the code inspects (file names) are sequences of one-       *)
(* character strings.  A DataFrame is a record                             *)
(*   [none, columns, numeric, index, rows]                                 *)
(* where numeric is the set of columns with a number dtype, index the row  *)
(* labels and rows the cells, row by row; None is the record NoneDF.       *)
(* A cell is <<"na",0,1>>, a number <<"num",n,d>> (the rational n/d in     *)
(* lowest terms, d > 0) or a text <<"str",i,1>>.                           *)
(***************************************************************************)
EXTENDS Integers, Sequences, FiniteSets, TLC

VARIABLES
    catalogue,       \* the files the user has at hand to upload
    cow,             \* the installed pandas runs with copy-on-write (pandas 3)
    uploaded_files,  \* st.file_uploader's current value (line 88)
    session_df,      \* st.session_state['df_<key>']: key -> DataFrame or None
    missing,         \* st.session_state['missing_<key>']: key -> strategy
    clicked,         \* keys of the Remove Duplicates button clicked for this run
    changed,         \* keys whose column, chart or format widgets the user set
    rendered,        \* element ids the current (or last) run rendered
    pc,              \* position of the run: idle, main, for, ingest, ...
    idx,             \* position of the loop variable `file` in uploaded_files
    df,              \* main's local df (NoneDF outside the loop body)
    selected_cols,   \* main's local selected_cols
    cleanOp,         \* what handle_data_cleaning did for the current file
    warning,         \* st.warning("Select columns to visualize") was shown
    chart,           \* the chart call made for the current file, "" if none
    download,        \* the st.download_button of the current file
    processed,       \* per file of this pass, the last stage it completed
    error,           \* the exception that ended the run, "" if none
    failedAt,        \* the stage that raised it
    nparse,          \* history: number of process_file calls of the session
    parsedFiles      \* history: the files process_file was called with

vars == <<catalogue, cow, uploaded_files, session_df, missing, clicked, changed,
          rendered, pc, idx, df, selected_cols, cleanOp, warning, chart,
          download, processed, error, failedAt, nparse, parsedFiles>>

(***************************************************************************)
(* Bounds of the model.                                                    *)
(***************************************************************************)
MaxFiles == 2
MaxRows == 3

(***************************************************************************)
(* Strings.                                                                *)
(***************************************************************************)
Alphabet == <<".", "a", "b", "c", "d", "l", "s", "v", "x", "C", "S", "V">>

Code(ch) == CHOOSE i \in 1..Len(Alphabet) : Alphabet[i] = ch

Lower(ch) ==
    CASE ch = "C" -> "c"
      [] ch = "S" -> "s"
      [] ch = "V" -> "v"
      [] OTHER -> ch

LowerStr(s) == [i \in 1..Len(s) |-> Lower(s[i])]

EndsWith(s, suffix) ==
    /\ Len(s) >= Len(suffix)
    /\ SubSeq(s, Len(s) - Len(suffix) + 1, Len(s)) = suffix

DotCsv == <<".", "c", "s", "v">>
DotXlsx == <<".", "x", "l", "s", "x">>

\* str.split('.')[0]: the text before the first dot, all of it without a dot
RECURSIVE SplitDotFirst(_)
SplitDotFirst(s) ==
    IF s = <<>> \/ Head(s) = "." THEN <<>>
    ELSE <<Head(s)>> \o SplitDotFirst(Tail(s))

\* hash(file.name): a number computed from the characters of the name alone
RECURSIVE Hash(_)
Hash(s) ==
    IF s = <<>> THEN 0
    ELSE Code(s[Len(s)]) + (Len(Alphabet) + 1) * Hash(SubSeq(s, 1, Len(s) - 1))

\* faulty variant: a key that also depends on the file's content
FileKeyWithContent(file) ==
    Hash(file.name) + (Len(Alphabet) + 1) * Len(file.content.rows)

\* file_key = hash(file.name)
FileKey(file) == Hash(file.name)

(***************************************************************************)
(* Cells and numbers.                                                      *)
(***************************************************************************)
NA == <<"na", 0, 1>>
Str(i) == <<"str", i, 1>>

Abs(n) == IF n < 0 THEN -n ELSE n

RECURSIVE GCD(_, _)
GCD(a, b) == IF b = 0 THEN a ELSE GCD(b, a % b)

\* the number n/d (d > 0) in lowest terms
Num(n, d) ==
    LET g == GCD(Abs(n), d)
    IN  <<"num", n \div g, d \div g>>

IsNA(c) == c[1] = "na"
NumAdd(p, q) == Num(p[2] * q[3] + q[2] * p[3], p[3] * q[3])
NumDiv(p, k) == Num(p[2], p[3] * k)
NumLess(p, q) == p[2] * q[3] < q[2] * p[3]

(***************************************************************************)
(* DataFrames.                                                             *)
(***************************************************************************)
NoneDF == [none |-> TRUE, columns |-> <<>>, numeric |-> {}, index |-> <<>>,
           rows |-> <<>>]

Range(s) == {s[i] : i \in 1..Len(s)}

ColPos(t, c) == CHOOSE j \in 1..Len(t.columns) : t.columns[j] = c

\* df[col]: the cells of column c, top to bottom
Column(t, c) == [i \in 1..Len(t.rows) |-> t.rows[i][ColPos(t, c)]]

\* the present (non-missing) cells of a column, in row order
Present(col) == SelectSeq(col, LAMBDA c : ~IsNA(c))

\* the rows of t at the positions keep (an increasing sequence), labels kept
TakeRows(t, keep) ==
    [t EXCEPT !.index = [i \in 1..Len(keep) |-> t.index[keep[i]]],
              !.rows = [i \in 1..Len(keep) |-> t.rows[keep[i]]]]

\* the positions 1..n that satisfy Test, in increasing order
Positions(n, Test(_)) == SelectSeq([i \in 1..n |-> i], Test)

(***************************************************************************)
(* File Ingestor: process_file.                                            *)
(***************************************************************************)
\* the dtype pandas infers: a column is a number column when the file has
\* rows and none of the column's cells is a text (an empty column is float)
InferNumeric(header, rows) ==
    {header[j] : j \in {k \in 1..Len(header) :
        /\ rows # <<>>
        /\ \A i \in 1..Len(rows) : rows[i][k][1] # "str"}}

\* pd.read_csv / pd.read_excel on well-formed content
ReadTable(content) ==
    [none |-> FALSE,
     columns |-> content.header,
     numeric |-> InferNumeric(content.header, content.rows),
     index |-> [i \in 1..Len(content.rows) |-> i - 1],
     rows |-> content.rows]

\* process_file: the DataFrame, or None for an unsupported name or a parse
\* that raises
process_file(file) ==
    IF EndsWith(file.name, DotCsv) \/ EndsWith(file.name, DotXlsx)
    THEN IF file.content.corrupt THEN NoneDF ELSE ReadTable(file.content)
    ELSE NoneDF

(***************************************************************************)
(* Cleaning Operations: the pandas calls of handle_data_cleaning.          *)
(***************************************************************************)
\* faulty variant: a call removes only the first duplicate it meets
DropDuplicatesRemoveOne(t) ==
    LET n == Len(t.rows)
        IsDup(i) == \E j \in 1..(i - 1) : t.rows[j] = t.rows[i]
        dups == {i \in 1..n : IsDup(i)}
        first == CHOOSE i \in dups : \A k \in dups : i <= k
    IN  IF dups = {} THEN t
        ELSE TakeRows(t, Positions(n, LAMBDA i : i # first))

\* df.drop_duplicates(): keep the first of equal rows (labels are not compared)
DropDuplicates(t) ==
    LET n == Len(t.rows)
        IsFirst(i) == \A j \in 1..(i - 1) : t.rows[j] # t.rows[i]
    IN  TakeRows(t, Positions(n, IsFirst))

RECURSIVE SumCells(_)
SumCells(cells) ==
    IF cells = <<>> THEN Num(0, 1)
    ELSE NumAdd(Head(cells), SumCells(Tail(cells)))

\* Series.mean(): NaN for a column with no present value
Mean(col) ==
    LET p == Present(col)
    IN  IF p = <<>> THEN NA ELSE NumDiv(SumCells(p), Len(p))

\* Series.median(): NaN for a column with no present value
Median(col) ==
    LET p == SortSeq(Present(col), NumLess)
        n == Len(p)
    IN  IF n = 0 THEN NA
        ELSE IF n % 2 = 1 THEN p[(n + 1) \div 2]
        ELSE NumDiv(NumAdd(p[n \div 2], p[n \div 2 + 1]), 2)

\* Series.mode(): the most frequent present values, ascending
Mode(col) ==
    LET p == Present(col)
        Count(v) == Cardinality({i \in 1..Len(p) : p[i] = v})
        top == {v \in Range(p) : \A w \in Range(p) : Count(w) <= Count(v)}
        asSeq == CHOOSE q \in [1..Cardinality(top) -> top] : Range(q) = top
    IN  IF p = <<>> THEN <<>> ELSE SortSeq(asSeq, NumLess)

\* faulty variant: the value is written to every cell of the column
FillNAOverwrite(t, c, value) ==
    LET j == ColPos(t, c)
    IN  [t EXCEPT !.rows = [i \in 1..Len(t.rows) |->
            [t.rows[i] EXCEPT ![j] = value]]]

\* Series.fillna(value): fillna(NaN) changes nothing
FillNA(t, c, value) ==
    LET j == ColPos(t, c)
    IN  [t EXCEPT !.rows = [i \in 1..Len(t.rows) |->
            IF IsNA(t.rows[i][j]) THEN [t.rows[i] EXCEPT ![j] = value]
            ELSE t.rows[i]]]

\* df[col].fillna(value, inplace=True): writes through to df on a classic
\* pandas; under copy-on-write df[col] is a new object and df keeps its cells
FillNAInplace(t, c, value, cw) == IF cw THEN t ELSE FillNA(t, c, value)

\* df.dropna(subset=cols)
DropNA(t, cols) ==
    LET Complete(i) == \A c \in cols : ~IsNA(t.rows[i][ColPos(t, c)])
    IN  TakeRows(t, Positions(Len(t.rows), Complete))

\* df.select_dtypes(include='number').columns
NumericCols(t) == SelectSeq(t.columns, LAMBDA c : c \in t.numeric)

\* the loop of lines 72-78 over cols; raised when mode()[0] finds no mode
RECURSIVE FillLoop(_, _, _, _)
FillLoop(t, cols, strategy, cw) ==
    IF cols = <<>> THEN [df |-> t, raised |-> FALSE]
    ELSE LET c == Head(cols)
             col == Column(t, c)
         IN  CASE strategy = "Mean" ->
                    FillLoop(FillNAInplace(t, c, Mean(col), cw), Tail(cols),
                             strategy, cw)
               [] strategy = "Median" ->
                    FillLoop(FillNAInplace(t, c, Median(col), cw), Tail(cols),
                             strategy, cw)
               [] strategy = "Mode" ->
                    IF Mode(col) = <<>> THEN [df |-> t, raised |-> TRUE]
                    ELSE FillLoop(FillNAInplace(t, c, Mode(col)[1], cw),
                                  Tail(cols), strategy, cw)
               [] OTHER -> FillLoop(t, Tail(cols), strategy, cw)

\* lines 72-80 for a strategy other than 'None' and at least one number
\* column: df as the code leaves it, and whether it raised
ImputeMissing(t, strategy, cw) ==
    LET r == FillLoop(t, NumericCols(t), strategy, cw)
    IN  IF ~r.raised /\ strategy = "Drop Rows"
        THEN [df |-> DropNA(r.df, t.numeric), raised |-> FALSE]
        ELSE r

(***************************************************************************)
(* Column Projector and Format Converter.                                  *)
(***************************************************************************)
\* df[selected_cols]: the chosen columns in the order of selected_cols
ProjectCols(t, cols) ==
    [t EXCEPT !.columns = cols,
              !.numeric = t.numeric \cap Range(cols),
              !.rows = [i \in 1..Len(t.rows) |->
                           [j \in 1..Len(cols) |-> t.rows[i][ColPos(t, cols[j])]]]]

\* faulty variant: the chosen columns in the order they have in the table
ProjectOriginalOrder(t, cols) ==
    ProjectCols(t, SelectSeq(t.columns, LAMBDA c : c \in Range(cols)))

\* faulty variant: an empty selection keeps every column
ProjectAllIfEmpty(t, cols) ==
    IF cols = <<>> THEN t ELSE ProjectCols(t, cols)

\* line 129: df = df[selected_cols]
Project(t, cols) == ProjectCols(t, cols)

\* df.to_csv(buffer, index=False) / df.to_excel(buffer, index=False): the
\* header row and the cells, without the row labels
Serialize(t) == [header |-> t.columns, rows |-> t.rows]

MimeCsv == "text/csv"
MimeXlsx == "application/vnd.openxmlformats-officedocument.spreadsheetml.sheet"

NoDownload == [offered |-> FALSE, file_name |-> <<>>, mime |-> "",
               data |-> [header |-> <<>>, rows |-> <<>>]]

\* file_name=f"converted_{file.name.split('.')[0]}{ext}"
DownloadName(name, ext) == <<"converted_">> \o SplitDotFirst(name) \o ext

(***************************************************************************)
(* Inputs: the files at hand and the values the widgets can return.        *)
(***************************************************************************)
N(i) == Num(i, 1)

Grid(header, rows) == [corrupt |-> FALSE, header |-> header, rows |-> rows]
Corrupt == [corrupt |-> TRUE, header |-> <<>>, rows |-> <<>>]

NameA == <<"a", ".", "c", "s", "v">>
NameB == <<"b", ".", "a", ".", "x", "l", "s", "x">>
NameC == <<"c", ".", "c", "s", "v">>
NameD == <<"d", ".", "C", "S", "V">>
NameE == <<"d", ".", "c", "s", "v">>

FileA1 == [name |-> NameA,
           content |-> Grid(<<"x", "y">>, << <<N(1), N(2)>>, <<N(1), N(2)>>,
                                             <<N(3), NA>> >>)]
FileA2 == [name |-> NameA,
           content |-> Grid(<<"x", "y">>, << <<N(1), NA>>, <<NA, NA>> >>)]
FileB == [name |-> NameB,
          content |-> Grid(<<"x", "s">>, << <<N(2), Str(1)>>, <<NA, Str(1)>> >>)]
FileC == [name |-> NameC, content |-> Corrupt]
FileD == [name |-> NameD, content |-> Grid(<<"x", "y">>, << <<N(1), N(1)>> >>)]
FileE == [name |-> NameE, content |-> Grid(<<"x">>, << <<N(1)>> >>)]

\* the files a user of the application runs has at hand: two files named
\* a.csv (one with a duplicate row and a missing cell, one with an empty
\* number column) and a name the uploader accepts and process_file does
\* not; or a spreadsheet with a text column and a second dot in its name,
\* beside a csv that does not parse or beside a csv of one column
Catalogues == { {FileA1, FileA2, FileD}, {FileB, FileC}, {FileB, FileE} }

\* for the table operations, every file a.csv of two columns and at most
\* MaxRows rows: a number column x beside a number column y or a text
\* column s, any cell possibly missing
GridsOf(rowSet) == UNION {[1..m -> rowSet] : m \in 0..MaxRows}
TableContents ==
    {Grid(<<"x", "y">>, g) : g \in GridsOf({NA, N(1), N(2)} \X {NA, N(1)})}
    \cup
    {Grid(<<"x", "s">>, g) : g \in GridsOf({NA, N(1), N(2)} \X {NA, Str(1)})}
TableCatalogues == {{[name |-> NameA, content |-> c]} : c \in TableContents}

\* st.file_uploader(type=["csv", "xlsx"]): the extension is compared in
\* lower case
AcceptedByUploader(name) ==
    \/ EndsWith(LowerStr(name), DotCsv)
    \/ EndsWith(LowerStr(name), DotXlsx)

Strategies == {"None", "Mean", "Median", "Mode", "Drop Rows"}
ChartTypes == {"Bar", "Line", "Scatter", "Histogram"}
Formats == {"CSV", "Excel"}

\* what st.multiselect can return: the chosen columns, each once, in the
\* order in which the user picked them
Selections(columns) ==
    {q \in UNION {[1..m -> Range(columns)] : m \in 0..Len(columns)} :
        \A i, j \in 1..Len(q) : q[i] = q[j] => i = j}

(***************************************************************************)
(* Elements of a run.  An element is identified by its key or, without a   *)
(* key, by its label and options; Streamlit raises when one run creates    *)
(* the same element twice, and forgets the value of a keyed widget that a  *)
(* run did not create.                                                     *)
(***************************************************************************)
ButtonId(k) == <<"Remove Duplicates", k, <<>> >>
MissingId(k) == <<"missing", k, <<>> >>
ColsId(k) == <<"cols", k, <<>> >>
ChartId(k) == <<"chart", k, <<>> >>
XAxisId(options) == <<"X Axis", 0, options>>
YAxisId(options) == <<"Y Axis", 0, options>>
FormatId(k) == <<"format", k, <<>> >>
DownloadId(k) == <<"dl", k, <<>> >>

\* the keyed widgets of a run: the ones whose state st.session_state holds
Keyed(ids) == {id \in ids : id[1] \notin {"X Axis", "Y Axis"}}

\* the widget values st.session_state keeps once the run is over
KeptMissing(m, ids) == [k \in {j \in DOMAIN m : MissingId(j) \in ids} |-> m[k]]

\* the keys whose column, chart and format widgets keep the user's values
KeptChanged(c, ids) == {k \in c : ColsId(k) \in ids}

\* the value a widget of file key k returns: any value the user may have set
\* if the user has changed the column, chart or format widgets of that file,
\* its default otherwise
WidgetValues(k, values, default) ==
    IF k \in changed THEN values ELSE {default}

File == uploaded_files[idx]
Key == FileKey(File)

(***************************************************************************)
(* The state after the script is first loaded: no file, an empty session.  *)
(***************************************************************************)
InitSession ==
    /\ cow \in BOOLEAN
    /\ uploaded_files = <<>>
    /\ session_df = <<>>
    /\ missing = <<>>
    /\ clicked = {}
    /\ changed = {}
    /\ rendered = {}
    /\ pc = "idle"
    /\ idx = 0
    /\ df = NoneDF
    /\ selected_cols = <<>>
    /\ cleanOp = "none"
    /\ warning = FALSE
    /\ chart = ""
    /\ download = NoDownload
    /\ processed = <<>>
    /\ error = ""
    /\ failedAt = ""
    /\ nparse = 0
    /\ parsedFiles = {}

Init == catalogue \in Catalogues /\ InitSession

env == <<catalogue, cow>>
history == <<nparse, parsedFiles>>
locals == <<df, selected_cols, cleanOp, warning, chart, download>>

ResetLocals ==
    /\ df' = NoneDF
    /\ selected_cols' = <<>>
    /\ cleanOp' = "none"
    /\ warning' = FALSE
    /\ chart' = ""
    /\ download' = NoDownload

(***************************************************************************)
(* User interactions.  Each one makes Streamlit re-run the script.         *)
(***************************************************************************)
Rerun ==
    /\ pc = "idle"
    /\ pc' = "main"
    /\ rendered' = {}
    /\ UNCHANGED <<env, session_df, idx, processed, error, failedAt, locals,
                   history>>

Upload(f) ==
    /\ Len(uploaded_files) < MaxFiles
    /\ AcceptedByUploader(f.name)
    /\ uploaded_files' = Append(uploaded_files, f)
    /\ Rerun
    /\ UNCHANGED <<missing, clicked, changed>>

RemoveFile(i) ==
    /\ uploaded_files' = [j \in 1..(Len(uploaded_files) - 1) |->
                             IF j < i THEN uploaded_files[j]
                             ELSE uploaded_files[j + 1]]
    /\ Rerun
    /\ UNCHANGED <<missing, clicked, changed>>

ClickRemoveDuplicates(k) ==
    /\ ButtonId(k) \in rendered
    /\ clicked' = {k}
    /\ Rerun
    /\ UNCHANGED <<uploaded_files, missing, changed>>

SelectStrategy(k, strategy) ==
    /\ MissingId(k) \in rendered
    /\ missing[k] # strategy
    /\ missing' = [missing EXCEPT ![k] = strategy]
    /\ Rerun
    /\ UNCHANGED <<uploaded_files, clicked, changed>>

\* the column selection, the chart type, an axis or the export format of
\* the file with key k is changed; the run reads the new values from the
\* widgets
ChangeOtherWidget(k) ==
    /\ ColsId(k) \in rendered
    /\ changed' = changed \cup {k}
    /\ Rerun
    /\ UNCHANGED <<uploaded_files, missing, clicked>>

(***************************************************************************)
(* The run of main(), one step per section of the script.                  *)
(***************************************************************************)
\* When the script ends, by returning or by an exception, button clicks are
\* consumed and the values of the keyed widgets the run did not create are
\* dropped.

\* an exception leaves main(): the rest of the script does not run
Raise(exception, stage, ids, m) ==
    /\ pc' = "failed"
    /\ error' = exception
    /\ failedAt' = stage
    /\ clicked' = {}
    /\ rendered' = Keyed(ids)
    /\ missing' = KeptMissing(m, ids)
    /\ changed' = KeptChanged(changed, ids)

\* lines 84-96
Main ==
    /\ pc = "main"
    /\ IF uploaded_files = <<>>
       THEN /\ pc' = "idle"
            /\ clicked' = {}
            /\ missing' = KeptMissing(missing, rendered)
            /\ changed' = KeptChanged(changed, rendered)
            /\ UNCHANGED <<idx, processed, rendered>>
       ELSE /\ pc' = "for"
            /\ idx' = 1
            /\ processed' = [i \in 1..Len(uploaded_files) |-> "none"]
            /\ UNCHANGED <<clicked, missing, rendered, changed>>
    /\ UNCHANGED <<env, uploaded_files, session_df, locals, error, failedAt,
                   history>>

\* line 98: the next file of the batch
ForFile ==
    /\ pc = "for"
    /\ idx <= Len(uploaded_files)
    /\ pc' = "ingest"
    /\ ResetLocals
    /\ UNCHANGED <<env, uploaded_files, session_df, missing, clicked, changed,
                   rendered, idx, processed, error, failedAt, history>>

\* line 98: the batch is exhausted and main() returns
Finish ==
    /\ pc = "for"
    /\ idx > Len(uploaded_files)
    /\ pc' = "idle"
    /\ clicked' = {}
    /\ missing' = KeptMissing(missing, rendered)
    /\ rendered' = Keyed(rendered)
    /\ changed' = KeptChanged(changed, rendered)
    /\ idx' = 0
    /\ processed' = <<>>
    /\ ResetLocals
    /\ UNCHANGED <<env, uploaded_files, session_df, error, failedAt, history>>

\* Streamlit shows the exception in the page; the run is over
ShowException ==
    /\ pc = "failed"
    /\ pc' = "idle"
    /\ idx' = 0
    /\ processed' = <<>>
    /\ error' = ""
    /\ failedAt' = ""
    /\ ResetLocals
    /\ UNCHANGED <<env, uploaded_files, session_df, missing, clicked, changed,
                   rendered, history>>

\* faulty variant: the file is parsed in every run
NeedsParseAlways(store, k) == TRUE

\* line 103: f'df_{file_key}' not in st.session_state
NeedsParse(store, k) == k \notin DOMAIN store

\* lines 99-117: parse the file unless the session holds an entry for its
\* key, skip the file if the entry is None, show the overview otherwise
Ingest ==
    /\ pc = "ingest"
    /\ LET absent == NeedsParse(session_df, Key)
           store == IF absent THEN (Key :> process_file(File)) @@ session_df
                    ELSE session_df
       IN  /\ session_df' = store
           /\ nparse' = IF absent THEN nparse + 1 ELSE nparse
           /\ parsedFiles' = IF absent THEN parsedFiles \cup {File}
                             ELSE parsedFiles
           /\ df' = store[Key]
           /\ IF store[Key].none
              THEN /\ pc' = "for"
                   /\ idx' = idx + 1
                   /\ processed' = [processed EXCEPT ![idx] = "skipped"]
              ELSE /\ pc' = "clean"
                   /\ idx' = idx
                   /\ processed' = [processed EXCEPT ![idx] = "overview"]
    /\ UNCHANGED <<env, uploaded_files, missing, clicked, changed, rendered,
                   selected_cols, cleanOp, warning, chart, download, error,
                   failedAt>>

\* line 120, handle_data_cleaning (lines 50-82)
Clean ==
    /\ pc = "clean"
    /\ IF ButtonId(Key) \in rendered
       THEN /\ Raise("DuplicateWidgetID", "clean", rendered, missing)
            /\ UNCHANGED <<session_df, df, cleanOp, processed>>
       ELSE LET ids == rendered \cup {ButtonId(Key), MissingId(Key)}
                click == Key \in clicked
                d1 == IF click THEN DropDuplicates(df) ELSE df
                store1 == IF click THEN [session_df EXCEPT ![Key] = d1]
                          ELSE session_df
                strategy == IF Key \in DOMAIN missing THEN missing[Key]
                            ELSE "None"
                m1 == (Key :> strategy) @@ missing
                impute == strategy # "None" /\ NumericCols(d1) # <<>>
                r == IF impute THEN ImputeMissing(d1, strategy, cow)
                     ELSE [df |-> d1, raised |-> FALSE]
            IN  /\ session_df' = IF impute THEN [store1 EXCEPT ![Key] = r.df]
                                 ELSE store1
                /\ df' = r.df
                /\ cleanOp' = CASE click /\ impute -> "dedup+impute"
                                [] click /\ ~impute -> "dedup"
                                [] ~click /\ impute -> "impute"
                                [] OTHER -> "none"
                /\ IF r.raised
                   THEN /\ Raise("KeyError", "clean", ids, m1)
                        /\ UNCHANGED processed
                   ELSE /\ pc' = "project"
                        /\ rendered' = ids
                        /\ missing' = m1
                        /\ processed' = [processed EXCEPT ![idx] = "cleaned"]
                        /\ UNCHANGED <<clicked, changed, error, failedAt>>
    /\ UNCHANGED <<env, uploaded_files, idx, selected_cols, warning, chart,
                   download, history>>

\* faulty variant: the projected table is written back to the session
ProjectStepStoring ==
    /\ pc = "project"
    /\ \E sel \in WidgetValues(Key, Selections(df.columns), df.columns) :
          /\ selected_cols' = sel
          /\ df' = Project(df, sel)
          /\ session_df' = [session_df EXCEPT ![Key] = Project(df, sel)]
    /\ rendered' = rendered \cup {ColsId(Key)}
    /\ processed' = [processed EXCEPT ![idx] = "projected"]
    /\ pc' = "visualize"
    /\ UNCHANGED <<env, uploaded_files, missing, clicked, changed, idx,
                   cleanOp, warning, chart, download, error, failedAt,
                   history>>

\* lines 122-129
ProjectStep ==
    /\ pc = "project"
    /\ \E sel \in WidgetValues(Key, Selections(df.columns), df.columns) :
          /\ selected_cols' = sel
          /\ df' = Project(df, sel)
    /\ rendered' = rendered \cup {ColsId(Key)}
    /\ processed' = [processed EXCEPT ![idx] = "projected"]
    /\ pc' = "visualize"
    /\ UNCHANGED <<env, uploaded_files, session_df, missing, clicked, changed,
                   idx, cleanOp, warning, chart, download, error, failedAt,
                   history>>

IsNumericDtype(t, c) == c \in t.numeric

\* lines 144-153: the chart call made for the chosen chart type and axes,
\* "" when nothing is drawn
Draw(t, chart_type, x_axis, y_axis) ==
    CASE chart_type = "Bar" -> "bar_chart"
      [] chart_type = "Line" -> "line_chart"
      [] chart_type = "Scatter" ->
            IF IsNumericDtype(t, x_axis) /\ IsNumericDtype(t, y_axis)
            THEN "scatter_chart"
            ELSE ""
      [] OTHER -> "pyplot"

\* lines 131-153
Visualize ==
    /\ pc = "visualize"
    /\ IF selected_cols = <<>>
       THEN /\ warning' = TRUE
            /\ chart' = ""
            /\ pc' = "export"
            /\ processed' = [processed EXCEPT ![idx] = "visualized"]
            /\ UNCHANGED <<rendered, missing, clicked, changed, error, failedAt>>
       ELSE LET ids == rendered \cup {ChartId(Key)}
                sel == selected_cols
            IN  IF XAxisId(sel) \in ids
                THEN /\ Raise("DuplicateWidgetID", "visualize", ids, missing)
                     /\ UNCHANGED <<warning, chart, processed>>
                ELSE /\ \E chart_type \in WidgetValues(Key, ChartTypes, "Bar"),
                          x_axis \in WidgetValues(Key, Range(sel), sel[1]) :
                        \E y_axis \in IF Len(sel) > 1
                                     THEN WidgetValues(Key, Range(sel), sel[1])
                                     ELSE {x_axis} :
                           chart' = Draw(df, chart_type, x_axis, y_axis)
                     /\ rendered' = ids \cup {XAxisId(sel)} \cup
                           (IF Len(sel) > 1 THEN {YAxisId(sel)} ELSE {})
                     /\ pc' = "export"
                     /\ processed' = [processed EXCEPT ![idx] = "visualized"]
                     /\ UNCHANGED <<warning, missing, clicked, changed, error,
                                    failedAt>>
    /\ UNCHANGED <<env, uploaded_files, session_df, idx, df,
                   selected_cols, cleanOp, download, history>>

\* lines 155-179
Export ==
    /\ pc = "export"
    /\ \E target_format \in WidgetValues(Key, Formats, "CSV") :
          download' =
              IF target_format = "CSV"
              THEN [offered |-> TRUE,
                    file_name |-> DownloadName(File.name, DotCsv),
                    mime |-> MimeCsv,
                    data |-> Serialize(df)]
              ELSE [offered |-> TRUE,
                    file_name |-> DownloadName(File.name, DotXlsx),
                    mime |-> MimeXlsx,
                    data |-> Serialize(df)]
    /\ rendered' = rendered \cup {FormatId(Key), DownloadId(Key)}
    /\ processed' = [processed EXCEPT ![idx] = "exported"]
    /\ pc' = "for"
    /\ idx' = idx + 1
    /\ UNCHANGED <<env, uploaded_files, session_df, missing, clicked, changed,
                   df, selected_cols, cleanOp, warning, chart, error, failedAt,
                   history>>

RunStep ==
    \/ Main
    \/ ForFile
    \/ Finish
    \/ ShowException
    \/ Ingest
    \/ Clean
    \/ ProjectStep
    \/ Visualize
    \/ Export

Next ==
    \/ \E f \in catalogue : Upload(f)
    \/ \E i \in 1..Len(uploaded_files) : RemoveFile(i)
    \/ \E k \in DOMAIN session_df : ClickRemoveDuplicates(k)
    \/ \E k \in DOMAIN missing : \E strategy \in Strategies :
          SelectStrategy(k, strategy)
    \/ \E k \in DOMAIN session_df : ChangeOtherWidget(k)
    \/ RunStep

Spec == Init /\ [][Next]_vars

(***************************************************************************)
(* The cleaning sessions: the user has uploaded one file, of any content   *)
(* within the bounds, and from then on only clicks Remove Duplicates and   *)
(* chooses imputation strategies; the other widgets keep their defaults.   *)
(***************************************************************************)
InitTables ==
    /\ catalogue \in TableCatalogues
    /\ cow \in BOOLEAN
    /\ uploaded_files \in {<<f>> : f \in catalogue}
    /\ session_df = <<>>
    /\ missing = <<>>
    /\ clicked = {}
    /\ changed = {}
    /\ rendered = {}
    /\ pc = "main"
    /\ idx = 0
    /\ df = NoneDF
    /\ selected_cols = <<>>
    /\ cleanOp = "none"
    /\ warning = FALSE
    /\ chart = ""
    /\ download = NoDownload
    /\ processed = <<>>
    /\ error = ""
    /\ failedAt = ""
    /\ nparse = 0
    /\ parsedFiles = {}

NextTables ==
    \/ \E k \in DOMAIN session_df : ClickRemoveDuplicates(k)
    \/ \E k \in DOMAIN missing : \E strategy \in Strategies :
          SelectStrategy(k, strategy)
    \/ RunStep

SpecTables == InitTables /\ [][NextTables]_vars

(***************************************************************************)
(* Properties.                                                             *)
(***************************************************************************)
\* the pass over the batch is over: the loop is exhausted or an exception
\* has left main()
PassOver == pc = "failed" \/ (pc = "for" /\ idx > Len(uploaded_files))

\* the file just exported, while its outputs are still on display
JustExported ==
    /\ pc = "for"
    /\ idx > 1
    /\ processed[idx - 1] = "exported"

NoMissing(col) == \A i \in 1..Len(col) : ~IsNA(col[i])

\* a column with its row labels
Labelled(t, c) == <<t.index, Column(t, c)>>

\* C1: in one pass over a batch that holds a file whose ingestion fails, that
\* file is skipped and every other file of the batch is processed through to
\* its export.
C1_OtherFilesProcessed ==
    (PassOver /\ \E i \in 1..Len(uploaded_files) :
                    process_file(uploaded_files[i]).none)
    => \A i \in 1..Len(uploaded_files) :
          IF process_file(uploaded_files[i]).none
          THEN processed[i] = "skipped"
          ELSE processed[i] = "exported"

\* C2: a file is parsed only when the session holds no entry for its key;
\* when an entry exists the run reads the table from it without parsing; an
\* entry is never removed and, once made, is changed by the cleaning step
\* alone, so the table a run starts from is the one the last cleaning left.
C2_ParsedOnceThenCached ==
    [][ /\ (nparse' # nparse =>
                pc = "ingest" /\ Hash(File.name) \notin DOMAIN session_df)
        /\ (pc = "ingest" /\ Hash(File.name) \in DOMAIN session_df =>
                nparse' = nparse /\ df' = session_df[Hash(File.name)])
        /\ (\A k \in DOMAIN session_df :
                /\ k \in DOMAIN session_df'
                /\ (session_df'[k] # session_df[k] => pc = "clean")) ]_vars

\* a run that starts from a cleaned table: the file was parsed once, in an
\* earlier run, and the table read from the session is not what a parse gives
C2_Witness ==
    /\ pc = "clean"
    /\ nparse = 1
    /\ parsedFiles = {File}
    /\ df # process_file(File)

\* C3 as stated: under every strategy, imputation leaves a number column
\* without missing values unchanged, in its values, its rows and its length.
C3_ColumnUnchanged ==
    [][ (pc = "clean" /\ cleanOp' = "impute") =>
            \A c \in df.numeric :
                NoMissing(Column(df, c)) =>
                    Labelled(session_df'[Key], c) = Labelled(df, c) ]_vars

\* the rows of t without a missing value in any number column
CompleteRows(t) ==
    Positions(Len(t.rows),
              LAMBDA i : \A c \in t.numeric : ~IsNA(t.rows[i][ColPos(t, c)]))

\* C3 amended: under Mean, Median and Mode a number column without missing
\* values is unchanged; under Drop Rows it keeps, in order and under their
\* labels, its values in the rows that have no missing value in any number
\* column.
C3_ColumnKept ==
    [][ (pc = "clean" /\ cleanOp' = "impute") =>
            \A c \in df.numeric :
                NoMissing(Column(df, c)) =>
                    Labelled(session_df'[Key], c) =
                        IF missing'[Key] = "Drop Rows"
                        THEN Labelled(TakeRows(df, CompleteRows(df)), c)
                        ELSE Labelled(df, c) ]_vars

\* Drop Rows has removed a row of a table that has a complete number column
C3_Witness ==
    /\ pc = "project"
    /\ cleanOp = "impute"
    /\ missing[Key] = "Drop Rows"
    /\ Len(df.rows) < Len(File.content.rows)
    /\ \E c \in df.numeric :
          NoMissing(Column(ReadTable(File.content), c))

\* C4 as stated: the projected table holds the chosen columns in the order
\* they have in the table.
C4_OriginalOrder ==
    pc = "visualize" =>
        df.columns = SelectSeq(session_df[Key].columns,
                               LAMBDA c : c \in Range(selected_cols))

\* C4 amended: the projected table holds exactly the chosen columns, in the
\* order in which the user picked them, each with the cells it has in the
\* cleaned table; the default selection gives the table's own order.
C4_PickedOrder ==
    pc = "visualize" =>
        LET t == session_df[Key]
        IN  /\ df.columns = selected_cols
            /\ df.index = t.index
            /\ \A j \in 1..Len(selected_cols) :
                  Column(df, selected_cols[j]) = Column(t, selected_cols[j])
            /\ (Key \notin changed => df.columns = t.columns)

\* the user picked y before x
C4_Witness ==
    /\ pc = "visualize"
    /\ selected_cols = <<"y", "x">>
    /\ session_df[Key].columns = <<"x", "y">>

\* os.path.splitext(name)[0]: the name without its last extension
StripExtension(name) ==
    LET dots == {i \in 1..Len(name) : name[i] = "."}
        last == CHOOSE i \in dots : \A j \in dots : j <= i
    IN  IF dots = {} THEN name ELSE SubSeq(name, 1, last - 1)

\* C5: the download is named converted_<name without its extension><new
\* extension>, also for a name with more than one dot.
C5_DownloadName ==
    JustExported =>
        download.file_name =
            <<"converted_">> \o StripExtension(uploaded_files[idx - 1].name)
                \o (IF download.mime = MimeCsv THEN DotCsv ELSE DotXlsx)

\* C6: removing duplicates from a table that is the result of removing
\* duplicates gives that table again, same rows, same labels, same order.
C6_Idempotent ==
    (pc = "project" /\ cleanOp = "dedup") =>
        /\ DropDuplicates(df) = df
        /\ DropDuplicates(session_df[Key]) = session_df[Key]

\* Remove Duplicates has removed at least one row
C6_Witness ==
    /\ pc = "project"
    /\ cleanOp = "dedup"
    /\ Len(df.rows) < Len(File.content.rows)

\* C7: with zero columns selected the visualization step shows the warning
\* and draws nothing, neither it nor the export step raises, and the export
\* step offers a download of the zero-column table.
C7_EmptySelection ==
    /\ (pc = "export" /\ selected_cols = <<>>) => (warning /\ chart = "")
    /\ (JustExported /\ selected_cols = <<>>) =>
            /\ warning
            /\ chart = ""
            /\ download.offered
            /\ download.data.header = <<>>
            /\ Len(download.data.rows) = Len(df.rows)
    /\ (pc = "failed" /\ failedAt \in {"visualize", "export"}) =>
            selected_cols # <<>>

\* a file of two columns was exported with none of them selected
C7_Witness ==
    /\ JustExported
    /\ selected_cols = <<>>
    /\ download.offered
    /\ Len(session_df[FileKey(uploaded_files[idx - 1])].columns) = 2

\* C8: the projection, visualization and export steps leave the session's
\* tables as the cleaning step of the run left them.
C8_StoreUntouched ==
    [][ (pc \in {"project", "visualize", "export"}) =>
            (session_df' = session_df) ]_vars

\* a file was cleaned and then exported under a narrower selection
C8_Witness ==
    /\ JustExported
    /\ cleanOp # "none"
    /\ download.offered
    /\ download.data.header # session_df[FileKey(uploaded_files[idx - 1])].columns

C10_ImputationCompletes ==
    (pc \in {"project", "failed"} /\ cleanOp \in {"impute", "dedup+impute"}) =>
        /\ error = ""
        /\ \A c \in session_df[Key].numeric :
              NoMissing(Column(session_df[Key], c))
====
